---- MODULE Spec2Model ----
(***************************************************************************)
(* State-machine model of rchan: the board polling worker                  *)
(* (crates/stream/src/worker.rs), the event forwarder of the stream        *)
(* supervisor (crates/stream/src/client.rs), the sliding-window rate       *)
(* limiter task (crates/api/src/rate_limit.rs), the response cache task    *)
(* (crates/api/src/cache.rs) and the conditional, retrying api client      *)
(* (crates/api/src/client.rs).                                             *)
(*                                                                         *)
(* Spec        the worker, its fetch tasks and the forwarder, with every   *)
(*             summary and thread body the API can hand them               *)
(* SpecRL      the limiter task with the clones of the client that call    *)
(*             it, and its clock                                           *)
(* LiveSpec    the worker against one board whose threads and posts        *)
(*             change, under the fairness of the task runtime              *)
(* SpecCache   the cache task with outside holders of its channel and a    *)
(*             clock that runs past the time an entry may be kept          *)
(* SpecClient  concurrent callers of get_with_retry, the cache task and    *)
(*             every answer upstream can give                              *)
(* SpecStream  the Stream supervisor: subscribe, unsubscribe and drop      *)
(*             against the workers and forwarders it started               *)
(* LiveStream  SpecStream under the fairness of the task runtime           *)
(* SpecFetch   the get_thread requests of a cycle on their way through     *)
(*             the limiter's channel                                       *)
(* SpecSyncRL  the synchronous limiter of src/api/rate_limit.rs called     *)
(*             back to back                                                *)
(* SpecChan    the limiter task with the numbered requests of its channel  *)
(* LiveChan    SpecChan under the fairness of the task runtime             *)
(***************************************************************************)
EXTENDS Integers, Sequences, FiniteSets, TLC

\* ------------------------------------------------------------------ bounds
MaxThreads == 2      \* thread numbers 1..MaxThreads exist upstream
MaxTime == 2         \* timestamps (seconds) range over 0..MaxTime
MaxPosts == 1        \* a thread body holds at most MaxPosts posts
MaxCycles == 2       \* polling cycles a worker starts after initialisation
ChanCap == 2         \* capacity of the bounded mpsc channels (100 in the code)
ConsumerCap == 1     \* capacity of the consumer channel handed to Stream::new
MaxPermits == 2      \* rate_limit_per_interval ranges over 1..MaxPermits
MaxWindow == 2       \* interval_duration_ms ranges over 1..MaxWindow
MaxNow == 6          \* the wall clock of the limiter runs over 0..MaxNow
MaxRequests == 5     \* requests the callers submit to the limiter in a run
MaxLate == 2         \* a sleep ends at most MaxLate after its deadline
MaxUpstreamPosts == 2  \* posts a thread holds upstream
MaxUpstreamThreads == 1  \* threads 1..MaxUpstreamThreads appear upstream
MaxCallers == 2      \* concurrent callers of the api client
MaxCalls == 3        \* calls of get_with_retry the callers start in a run
MaxRetriesCap == 1   \* Config.max_retries ranges over 0..MaxRetriesCap
MaxBodies == 2       \* the bodies upstream serves with a 200: 1..MaxBodies
TicksPerSec == 2     \* ticks of the cache clock in one second
MaxTicks == 2        \* ticks the cache clock makes between two long waits
MaxHours == 1        \* waits of over an hour in a run
MaxInbox == 1        \* messages an outside holder keeps in the cache channel
MaxClones == 3       \* clones of the one Client that issue requests

\* Option::None of an Option<i64>; every Some(t) of the model has t >= 0, and
\* Option's ordering puts None below every Some.
None == 0 - 1

ThreadNos == 1..MaxThreads
UpstreamNos == 1..MaxUpstreamThreads
Times == 0..MaxTime
OptTimes == {None} \cup Times

UnwrapOr(x, default) == IF x = None THEN default ELSE x

SeqsUpTo(S, n) == UNION {[1..k -> S] : k \in 0..n}

\* A threads.json summary with its pages flattened in iteration order: a
\* sequence of thread summaries {no, last_modified}, each number pages once.
\* AllPages holds every such summary; the worker's specification draws its
\* summaries from Pages, those pages by ascending thread number.
ThreadSummaries == [no : ThreadNos, last_modified : OptTimes]
AllPages ==
    {p \in SeqsUpTo(ThreadSummaries, MaxThreads) :
        \A i, j \in DOMAIN p : i # j => p[i].no # p[j].no}
Pages ==
    {p \in SeqsUpTo([no : ThreadNos, last_modified : Times], MaxThreads) :
        \A i, j \in DOMAIN p : i < j => p[i].no < p[j].no}
PageNos(pgs) == {pgs[i].no : i \in DOMAIN pgs}

\* A thread.json body: the sequence of the posts' `time` fields, each absent
\* or a timestamp after the epoch.
Bodies == SeqsUpTo({None} \cup (1..MaxTime), MaxPosts)

\* ------------------------------------------------------------------ state
VARIABLES
    threads,         \* BoardWorker.cache.threads: thread no -> ThreadCache
    pc,              \* position of the worker task in run()
    kill,            \* the oneshot kill channel: "open", "sent" or "closed"
    cycle,           \* number of update_board calls started so far
    tasks,           \* the fetch tasks spawned by update_board
    new_posts_chan,  \* the worker's mpsc channel (FIFO)
    events_tx,       \* the supervisor's consumer channel (FIFO)
    lastRecv,        \* cycle of the event the consumer received last
    pages,           \* the summary returned by the last successful fetch
    before,          \* cache.threads as it was when the current cycle began
    failed,          \* threads whose fetch failed in the last joined cycle,
                     \* each with its last_modified from before that cycle
    quiet,           \* threads of the initial snapshot for which no later
                     \* cycle has yet seen last_modified above the watermark
    published,       \* the posts {no, k} sent on new_posts_chan so far
    upstream,        \* the board upstream: thread no -> its state and posts
    clock,           \* the upstream clock that stamps new posts (seconds)
    rate_limit_per_interval,  \* RateLimiter: permits per window (N)
    interval_duration_ms,     \* RateLimiter: the window (W)
    timestamps,      \* RateLimiter.timestamps: the expiry times
    now,             \* the wall clock read by RateLimiter::now()
    rl_pc,           \* the limiter task: "recv" or "sleep"
    wake_at,         \* deadline of the limiter's current sleep
    queue,           \* requests waiting in the limiter's mpsc channel
    submitted,       \* requests submitted so far
    released,        \* the times at which requests left the limiter
    via,             \* the clones of the Client that have issued a request
    returned,        \* the variants of the payloads returned for Threads
    last_called,     \* CacheInner.last_called: endpoint -> stamp
    last_response,   \* CacheInner.last_response: endpoint -> payload
    counter,         \* the cache task's count of loop passes
    inbox,           \* the cache task's mpsc channel (FIFO)
    utc,             \* the wall clock read by chrono::Utc::now()
    call,            \* the callers of Client::get_with_retry
    calls,           \* number of get_with_retry calls started so far
    done200,         \* endpoint -> time the last get ended with a 200
    last200,         \* endpoint -> payload of the last get ended with a 200
    boards,          \* Stream.boards: the cached boards list (names)
    workers,         \* Stream.workers: board name -> kill handle (worker id)
    ws,              \* every worker started so far, with its forwarder
    consumer,        \* the consumer channel of Stream::new (FIFO)
    stream,          \* the Stream value: "up" or "dropped"
    http,            \* number of get_boards requests issued by the Stream
    ret,             \* what the last call on the Stream returned
    fetch_queue,     \* get_thread requests waiting in the limiter's channel
    fetch_released,  \* get_thread requests the limiter has released
    rx,              \* the limiter's channel: requests sent, not yet received
    req,             \* the request the limiter task holds in rate_limit()
    handed           \* requests handed to handle_get / handle_execute

workerVars == <<threads, pc, kill, cycle, tasks, new_posts_chan, events_tx,
                lastRecv, pages, before, failed, quiet>>

upVars == <<upstream, clock>>

rlVars == <<rate_limit_per_interval, interval_duration_ms, timestamps, now,
            rl_pc, wake_at, queue, submitted, released, via, returned>>

cacheVars == <<last_called, last_response, counter, inbox, utc>>

apiVars == <<cacheVars, call, calls, done200, last200>>

streamVars == <<boards, workers, ws, consumer, stream, http, ret>>

chanVars == <<rx, req, handed>>
fetchVars == <<fetch_queue, fetch_released, chanVars>>

envVars == <<upVars, rlVars, apiVars, streamVars, fetchVars>>

vars == <<workerVars, published, upVars, rlVars, apiVars, streamVars,
          fetchVars>>

\* ------------------------------------------------- worker.rs: the cache
ThreadCache(no, last_modified) ==
    [no |-> no, last_modified |-> last_modified, prev_last_modified |-> 0]

Put(f, k, v) == [x \in DOMAIN f \cup {k} |-> IF x = k THEN v ELSE f[x]]

Retain_KeepAll(cache, pgs) == cache

\* self.cache.threads.retain(|k, _| pages.iter().any(...))
Retain(cache, pgs) == [k \in DOMAIN cache \cap PageNos(pgs) |-> cache[k]]

IsModified_NotEqual(entry, thread_last_modified) ==
    entry.last_modified # thread_last_modified

\* cache.last_modified < thread_last_modified
IsModified(entry, thread_last_modified) ==
    entry.last_modified < thread_last_modified

Advance_Swapped(entry, thread_last_modified) ==
    [entry EXCEPT !.prev_last_modified = thread_last_modified]

\* cache.prev_last_modified = cache.last_modified;
\* cache.last_modified = thread_last_modified;
Advance(entry, thread_last_modified) ==
    [entry EXCEPT !.prev_last_modified = entry.last_modified,
                  !.last_modified = thread_last_modified]

\* the loop `for page in pages { for thread in &page.threads {...} }`
RECURSIVE UpdateCacheLoop(_, _, _, _)
UpdateCacheLoop(cache, modified_threads, pgs, i) ==
    IF i > Len(pgs)
    THEN [threads |-> cache, modified_threads |-> modified_threads]
    ELSE LET thread == pgs[i]
             entry == IF thread.no \in DOMAIN cache
                      THEN cache[thread.no]
                      ELSE ThreadCache(thread.no, 0)
             thread_last_modified == UnwrapOr(thread.last_modified, 0)
         IN  IF IsModified(entry, thread_last_modified)
             THEN UpdateCacheLoop(
                      Put(cache, thread.no, Advance(entry, thread_last_modified)),
                      Append(modified_threads, thread), pgs, i + 1)
             ELSE UpdateCacheLoop(Put(cache, thread.no, entry),
                                  modified_threads, pgs, i + 1)

\* modified_threads.sort_by(|a, b| a.last_modified.cmp(&b.last_modified)):
\* a stable sort on Option<i64>, None first.
RECURSIVE InsertSorted(_, _)
InsertSorted(sorted, x) ==
    IF sorted = <<>> THEN <<x>>
    ELSE IF sorted[Len(sorted)].last_modified <= x.last_modified
         THEN Append(sorted, x)
         ELSE Append(InsertSorted(SubSeq(sorted, 1, Len(sorted) - 1), x),
                     sorted[Len(sorted)])

RECURSIVE SortByLastModified(_)
SortByLastModified(s) ==
    IF s = <<>> THEN <<>>
    ELSE InsertSorted(SortByLastModified(SubSeq(s, 1, Len(s) - 1)), s[Len(s)])

update_cache(cache, pgs) ==
    LET r == UpdateCacheLoop(Retain(cache, pgs), <<>>, pgs, 1)
    IN  [threads |-> r.threads,
         modified_threads |-> SortByLastModified(r.modified_threads)]

\* ------------------------------------------- worker.rs: update_board
EmptyMap == [x \in {} |-> 0]

\* last_modified of thread `no` in a cache, 0 for a thread the cache lacks
\* (the value ThreadCache::new(no, 0) starts from in update_cache).
LastModifiedIn(cache, no) ==
    IF no \in DOMAIN cache THEN cache[no].last_modified ELSE 0

Reverse(s) == [i \in DOMAIN s |-> s[Len(s) + 1 - i]]

NewPosts_Reversed(body, prev_last_modified) ==
    LET keep(k) == body[k] # None /\ body[k] > prev_last_modified
        F[k \in 0..Len(body)] ==
            IF k = 0 THEN <<>>
            ELSE IF keep(k) THEN Append(F[k - 1], [k |-> k, time |-> body[k]])
                 ELSE F[k - 1]
    IN  Reverse(F[Len(body)])

\* thread.posts.iter().filter(|post| post.time.map_or(false, |t| t >
\* cache.prev_last_modified)).collect(): the posts kept, each with its index
\* in the body.
NewPosts(body, prev_last_modified) ==
    LET keep(k) == body[k] # None /\ body[k] > prev_last_modified
        F[k \in 0..Len(body)] ==
            IF k = 0 THEN <<>>
            ELSE IF keep(k) THEN Append(F[k - 1], [k |-> k, time |-> body[k]])
                 ELSE F[k - 1]
    IN  F[Len(body)]

\* let cache = self.cache.threads.get(&modified_thread.no)...clone(): taken
\* after update_cache has run; update_cache inserted every thread it returns,
\* so the unwrap_or fallback is never used.
CapturedCache(cache, no) == cache[no]

SpawnTask_NewWatermark(c, cache) ==
    [cycle |-> c, no |-> cache.no,
     prev_last_modified |-> cache.last_modified,
     state |-> "fetching", outcome |-> "none", body |-> <<>>,
     new_posts |-> <<>>, n_sent |-> 0, tx |-> "pending"]

\* The task update_board spawns for one modified thread, before its fetch.
SpawnTask(c, cache) ==
    [cycle |-> c, no |-> cache.no,
     prev_last_modified |-> cache.prev_last_modified,
     state |-> "fetching", outcome |-> "none", body |-> <<>>,
     new_posts |-> <<>>, n_sent |-> 0, tx |-> "pending"]

\* entry.last_modified = entry.prev_last_modified
Rollback(entry) == [entry EXCEPT !.last_modified = entry.prev_last_modified]

\* Results get_with_retry hands to its caller (client.rs 90-119): an error
\* value is a 404, or another status once a finite retry cap is exhausted.
FetchErrors == {"404", "500"}

\* for modified_thread in ... { ...; tokio::spawn(...) }
SpawnTasks(c, r) ==
    {SpawnTask(c, CapturedCache(r.threads, r.modified_threads[i].no)) :
        i \in DOMAIN r.modified_threads}

CurrentTasks == {t \in tasks : t.cycle = cycle}
Unfinished(ts) == {t \in ts : t.state # "done"}

\* ---- init(): one get_threads, update_cache; the closure given to map ends
\* in `;`, so the list of modified threads is dropped and nothing is spawned
InitTasks_Spawn(c, r) == SpawnTasks(c, r)

InitTasks(c, r) == {}

InitOk(pgs) ==
    /\ pc = "init"
    /\ LET r == update_cache(threads, pgs)
       IN  /\ threads' = r.threads
           /\ tasks' = InitTasks(cycle, r)
    /\ pages' = pgs
    /\ quiet' = PageNos(pgs)
    /\ pc' = "loop"
    /\ UNCHANGED <<kill, cycle, new_posts_chan, events_tx, lastRecv, before,
                   failed,
                   published, envVars>>

\* init() returns Err and run() returns it through `?`
InitErr ==
    /\ pc = "init"
    /\ pc' = "failed"
    /\ UNCHANGED <<threads, kill, cycle, tasks, new_posts_chan, events_tx,
                   lastRecv, pages, before, failed, quiet,
                   published, envVars>>

\* the transport fails: the spawned execute task panics on its unwrap, the
\* reply channel closes and the caller panics on rx.recv().await.unwrap()
InitPanic ==
    /\ pc = "init"
    /\ pc' = "panicked"
    /\ UNCHANGED <<threads, kill, cycle, tasks, new_posts_chan, events_tx,
                   lastRecv, pages, before, failed, quiet,
                   published, envVars>>

\* ---- the loop head of run(): rx.try_recv() on the kill channel
LoopKilled ==
    /\ pc = "loop"
    /\ kill \in {"sent", "closed"}
    /\ pc' = "stopped"
    /\ UNCHANGED <<threads, kill, cycle, tasks, new_posts_chan, events_tx,
                   lastRecv, pages, before, failed, quiet,
                   published, envVars>>

LoopContinue_NoCheck ==
    /\ pc = "loop"
    /\ cycle < MaxCycles
    /\ pc' = "fetch"
    /\ cycle' = cycle + 1
    /\ before' = threads
    /\ UNCHANGED <<threads, kill, tasks, new_posts_chan, events_tx, lastRecv,
                   pages, failed, quiet,
                   published, envVars>>

\* Err(TryRecvError::Empty): the loop goes on to update_board
LoopContinue ==
    /\ pc = "loop"
    /\ kill = "open"
    /\ cycle < MaxCycles
    /\ pc' = "fetch"
    /\ cycle' = cycle + 1
    /\ before' = threads
    /\ UNCHANGED <<threads, kill, tasks, new_posts_chan, events_tx, lastRecv,
                   pages, failed, quiet,
                   published, envVars>>

\* ---- update_board: the summary arrives, update_cache runs, one task is
\* spawned per modified thread
UpdateBoardOk(pgs) ==
    /\ pc = "fetch"
    /\ LET r == update_cache(threads, pgs)
       IN  /\ threads' = r.threads
           /\ tasks' = Unfinished(tasks) \cup SpawnTasks(cycle, r)
    /\ pages' = pgs
    /\ quiet' = quiet \ {pgs[i].no : i \in {j \in DOMAIN pgs :
                    UnwrapOr(pgs[j].last_modified, 0)
                        > LastModifiedIn(threads, pgs[j].no)}}
    /\ pc' = "join"
    /\ UNCHANGED <<kill, cycle, new_posts_chan, events_tx, lastRecv, before,
                   failed,
                   published, envVars>>

\* get_threads returns Err: update_board returns it through `?`, and run()
\* logs it in map_err and then calls unwrap() on the Err
UpdateBoardErr ==
    /\ pc = "fetch"
    /\ pc' = "unwrap_err"
    /\ UNCHANGED <<threads, kill, cycle, tasks, new_posts_chan, events_tx,
                   lastRecv, pages, before, failed, quiet,
                   published, envVars>>

\* the transport fails under get_threads: the worker task panics
UpdateBoardPanic ==
    /\ pc = "fetch"
    /\ pc' = "panicked"
    /\ UNCHANGED <<threads, kill, cycle, tasks, new_posts_chan, events_tx,
                   lastRecv, pages, before, failed, quiet,
                   published, envVars>>

\* ---- the spawned task: api.get_thread(&board, cache.no).await
SetTask(t, u) == (tasks \ {t}) \cup {u}

\* Ok(thread): the new posts are collected; with none to send the task goes
\* straight to tx.send(None)
TaskOk(t, body) ==
    /\ t \in tasks /\ t.state = "fetching"
    /\ LET new == NewPosts(body, t.prev_last_modified)
       IN  tasks' = SetTask(t, [t EXCEPT
               !.outcome = "ok", !.body = body, !.new_posts = new,
               !.state = IF new = <<>> THEN "done" ELSE "sending",
               !.tx = IF new = <<>> THEN "None" ELSE "pending"])
    /\ UNCHANGED <<threads, pc, kill, cycle, new_posts_chan, events_tx,
                   lastRecv, pages, before, failed, quiet,
                   published, envVars>>

\* new_posts_chan.send(new_post.clone()).await, blocking while the channel is
\* full; after the last post, tx.send(None)
TaskSend(t) ==
    /\ t \in tasks /\ t.state = "sending"
    /\ Len(new_posts_chan) < ChanCap
    /\ LET p == t.new_posts[t.n_sent + 1]
           last == t.n_sent + 1 = Len(t.new_posts)
       IN  /\ new_posts_chan' = Append(new_posts_chan,
                  [cycle |-> t.cycle, no |-> t.no, k |-> p.k])
           /\ published' = published \cup {[no |-> t.no, k |-> p.k]}
           /\ tasks' = SetTask(t, [t EXCEPT
                  !.n_sent = t.n_sent + 1,
                  !.state = IF last THEN "done" ELSE "sending",
                  !.tx = IF last THEN "None" ELSE "pending"])
    /\ UNCHANGED <<threads, pc, kill, cycle, events_tx, lastRecv, pages,
                   before, failed, quiet,
                   envVars>>

\* Err(e): tx.send(Some(cache.no))
TaskErr(t, e) ==
    /\ t \in tasks /\ t.state = "fetching"
    /\ tasks' = SetTask(t, [t EXCEPT !.outcome = e, !.state = "done",
                                     !.tx = "Some"])
    /\ UNCHANGED <<threads, pc, kill, cycle, new_posts_chan, events_tx,
                   lastRecv, pages, before, failed, quiet,
                   published, envVars>>

\* the transport fails under get_thread: the task panics inside
\* RateLimitedClient::execute and its oneshot sender is dropped unsent
TaskPanic(t) ==
    /\ t \in tasks /\ t.state = "fetching"
    /\ tasks' = SetTask(t, [t EXCEPT !.outcome = "transport", !.state = "done",
                                     !.tx = "dropped"])
    /\ UNCHANGED <<threads, pc, kill, cycle, new_posts_chan, events_tx,
                   lastRecv, pages, before, failed, quiet,
                   published, envVars>>

\* ---- join_all(rxs).await, then one rollback per Ok(Some(thread_no)) with
\* thread_no >= 0 whose entry exists; self.cache.last_update_sec = now
Joined_NoWait(ts) == TRUE

Joined(ts) == \A t \in ts : t.tx # "pending"

Join ==
    /\ pc = "join"
    /\ Joined(CurrentTasks)
    /\ threads' = [n \in DOMAIN threads |->
           IF \E t \in CurrentTasks : t.no = n /\ t.tx = "Some" /\ t.no >= 0
           THEN Rollback(threads[n]) ELSE threads[n]]
    /\ failed' = [n \in {t.no : t \in {u \in CurrentTasks : u.outcome # "ok"}}
                    |-> LastModifiedIn(before, n)]
    /\ pc' = "sleep"
    /\ UNCHANGED <<kill, cycle, tasks, new_posts_chan, events_tx, lastRecv,
                   pages, before, quiet,
                   published, envVars>>

\* tokio::time::sleep(refresh_rate_ms) is over
Wake ==
    /\ pc = "sleep"
    /\ pc' = "loop"
    /\ UNCHANGED <<threads, kill, cycle, tasks, new_posts_chan, events_tx,
                   lastRecv, pages, before, failed, quiet,
                   published, envVars>>

\* ---- client.rs: Stream::kill_worker sends (), dropping the Stream closes
KillWorker ==
    /\ kill = "open"
    /\ kill' = "sent"
    /\ UNCHANGED <<threads, pc, cycle, tasks, new_posts_chan, events_tx,
                   lastRecv, pages, before, failed, quiet,
                   published, envVars>>

DropKill ==
    /\ kill = "open"
    /\ kill' = "closed"
    /\ UNCHANGED <<threads, pc, cycle, tasks, new_posts_chan, events_tx,
                   lastRecv, pages, before, failed, quiet,
                   published, envVars>>

Forward_TrySend ==
    /\ new_posts_chan # <<>>
    /\ events_tx' = IF Len(events_tx) < ConsumerCap
                    THEN Append(events_tx, Head(new_posts_chan))
                    ELSE events_tx
    /\ new_posts_chan' = Tail(new_posts_chan)
    /\ UNCHANGED <<threads, pc, kill, cycle, tasks, lastRecv, pages, before,
                   failed, quiet,
                   published, envVars>>

\* ---- client.rs: the forwarder spawned by subscribe
\* while let Some(new_event) = events_rx.recv().await
\*     { events_tx.send(new_event).await.unwrap(); }
Forward ==
    /\ new_posts_chan # <<>>
    /\ Len(events_tx) < ConsumerCap
    /\ events_tx' = Append(events_tx, Head(new_posts_chan))
    /\ new_posts_chan' = Tail(new_posts_chan)
    /\ UNCHANGED <<threads, pc, kill, cycle, tasks, lastRecv, pages, before,
                   failed, quiet,
                   published, envVars>>

\* the consumer takes the next event from its receiving end
Recv ==
    /\ events_tx # <<>>
    /\ lastRecv' = Head(events_tx).cycle
    /\ events_tx' = Tail(events_tx)
    /\ UNCHANGED <<threads, pc, kill, cycle, tasks, new_posts_chan, pages,
                   before, failed, quiet,
                   published, envVars>>

\* ------------------------------------------------------- specification
\* BoardWorker::new: an empty cache, nothing fetched, nothing sent
WorkerInit ==
    /\ threads = EmptyMap
    /\ pc = "init"
    /\ kill = "open"
    /\ cycle = 0
    /\ tasks = {}
    /\ new_posts_chan = <<>>
    /\ events_tx = <<>>
    /\ lastRecv = 0
    /\ pages = <<>>
    /\ before = EmptyMap
    /\ failed = EmptyMap
    /\ quiet = {}
    /\ published = {}

\* RateLimiter::new(n, w) inside the task RateLimitedClient::new spawns
RateLimiterNew(n, w) ==
    /\ rate_limit_per_interval = n
    /\ interval_duration_ms = w
    /\ timestamps = <<>>
    /\ now = 0
    /\ rl_pc = "recv"
    /\ wake_at = 0
    /\ queue = 0
    /\ submitted = 0
    /\ released = <<>>
    /\ via = {}
    /\ returned = {}

\* the board before any thread of the model exists
UpstreamInit ==
    /\ upstream = [n \in ThreadNos |-> [state |-> "unborn", posts |-> <<>>]]
    /\ clock = 1

\* ------------------------------------------- api: cache.rs and client.rs
\* ClientCache::CLEANUP_INTERVAL
CLEANUP_INTERVAL == 100

\* CacheInner::MAX_CACHE_TIME_S
MAX_CACHE_TIME_S == 60 * 60

\* Endpoint::Threads(board) and Endpoint::Catalog(board) of one board
Endpoints == {"Threads", "Catalog"}

Callers == 1..MaxCallers

\* Option<ClientResponse>::None
NoPayload == [variant |-> "None", body |-> 0]

Parse_AsThreads(endpoint, body) == [variant |-> "Threads", body |-> body]

\* ClientResponse::parse: the variant is picked by the endpoint
Parse(endpoint, body) == [variant |-> endpoint, body |-> body]

\* DateTime::to_rfc2822: the date to the second, the rest is dropped
ToRfc2822(t) == t \div TicksPerSec

\* Duration::num_seconds: whole seconds, rounded towards zero
NumSeconds(d) ==
    IF d >= 0 THEN d \div TicksPerSec ELSE 0 - ((0 - d) \div TicksPerSec)

\* Result<ClientResponse, Error>
NoResult == [tag |-> "none", code |-> 0, value |-> NoPayload]

Ok(v) == [tag |-> "Ok", code |-> 0, value |-> v]

Err(tag, code) == [tag |-> tag, code |-> code, value |-> NoPayload]

\* a caller that has no call of get_with_retry under way
IdleCall ==
    [pc |-> "idle", endpoint |-> "Threads", retries |-> 0, max_retries |-> 0,
     header |-> None, status |-> None, result |-> NoResult, attempts |-> 0,
     slept |-> 0, floor |-> None, latest |-> NoPayload]

\* ClientCache::new and Client::new: empty maps, counter 0, nobody calling
ApiInit ==
    /\ last_called = [e \in Endpoints |-> None]
    /\ last_response = [e \in Endpoints |-> NoPayload]
    /\ counter = 0
    /\ inbox = <<>>
    /\ utc = 0
    /\ call = [p \in Callers |-> IdleCall]
    /\ calls = 0
    /\ done200 = [e \in Endpoints |-> None]
    /\ last200 = [e \in Endpoints |-> NoPayload]

\* Stream::new: no boards cached, no worker registered; the Stream holds the
\* sending end of the consumer channel
StreamNew ==
    /\ boards = {}
    /\ workers = <<>>
    /\ ws = <<>>
    /\ consumer = <<>>
    /\ stream = "up"
    /\ http = 0
    /\ ret = [op |-> "new", board |-> "", result |-> "Ok", n |-> 0]

\* no get_thread request has reached the rate limiter
FetchInit ==
    /\ fetch_queue = <<>>
    /\ fetch_released = <<>>
    /\ rx = <<>>
    /\ req = None
    /\ handed = <<>>

Init ==
    /\ WorkerInit
    /\ RateLimiterNew(1, 1)
    /\ UpstreamInit
    /\ ApiInit
    /\ StreamNew
    /\ FetchInit

Next ==
    \/ \E pgs \in Pages : InitOk(pgs)
    \/ InitErr
    \/ InitPanic
    \/ LoopKilled
    \/ LoopContinue
    \/ \E pgs \in Pages : UpdateBoardOk(pgs)
    \/ UpdateBoardErr
    \/ UpdateBoardPanic
    \/ \E t \in tasks, body \in Bodies : TaskOk(t, body)
    \/ \E t \in tasks : TaskSend(t)
    \/ \E t \in tasks, e \in FetchErrors : TaskErr(t, e)
    \/ \E t \in tasks : TaskPanic(t)
    \/ Join
    \/ Wake
    \/ KillWorker
    \/ DropKill
    \/ Forward
    \/ Recv

Spec == Init /\ [][Next]_vars

\* ------------------------------------------- rate_limit.rs: the limiter
Max(a, b) == IF a >= b THEN a ELSE b

\* ceil(a / b) for a >= 0, b > 0
Ceil(a, b) == (a + b - 1) \div b

\* the filter that drops nothing
Unexpired_KeepAll(ts, t) == ts

\* self.timestamps.iter().filter(|&&t| t > now).copied().collect()
Unexpired(ts, t) == SelectSeq(ts, LAMBDA x : x > t)

\* the clones of one Client: each holds the same Arc<RateLimitedClient>, so
\* the same sender of the one limiter channel
Clones == 1..MaxClones

\* Client::get(Endpoint::Threads(board)) through clone c ->
\* RateLimitedClient::execute: the caller sends its request on the
\* limiter's channel (capacity 100 in the code) and waits for the reply
Execute(c) ==
    /\ submitted < MaxRequests
    /\ queue < ChanCap
    /\ queue' = queue + 1
    /\ submitted' = submitted + 1
    /\ via' = via \cup {c}
    /\ UNCHANGED <<rate_limit_per_interval, interval_duration_ms, timestamps,
                   now, rl_pc, wake_at, released, returned, workerVars,
                   published, upVars, apiVars, streamVars, fetchVars>>

\* the request leaves the limiter at time t; the caller's handle_response
\* parses the reply by the endpoint of the request
Release(t) ==
    /\ released' = Append(released, t)
    /\ returned' = returned \cup {Parse("Threads", 1).variant}

PushExpiry_NoWindow(ts, t, sleep_duration) == Append(ts, t + sleep_duration)

\* self.timestamps.push(now + sleep_duration + self.interval_duration_ms)
PushExpiry(ts, t, sleep_duration) ==
    Append(ts, t + sleep_duration + interval_duration_ms)

\* rx.recv() yields a request and rate_limit() takes its else branch: fewer
\* than N expiries are left, the request goes to the transport at once
RateLimitPass ==
    /\ rl_pc = "recv"
    /\ queue > 0
    /\ LET live == Unexpired(timestamps, now)
       IN  /\ Len(live) < rate_limit_per_interval
           /\ timestamps' = PushExpiry(live, now, 0)
    /\ queue' = queue - 1
    /\ Release(now)
    /\ UNCHANGED <<rate_limit_per_interval, interval_duration_ms, now, rl_pc,
                   wake_at, submitted, via, workerVars, published, upVars,
                   apiVars, streamVars, fetchVars>>

\* rate_limit() takes its if branch: the expiry of the slot is pushed first,
\* then the task sleeps until the first expiry
RateLimitSleep ==
    /\ rl_pc = "recv"
    /\ queue > 0
    /\ LET live == Unexpired(timestamps, now)
       IN  /\ Len(live) >= rate_limit_per_interval
           /\ LET sleep_duration == Head(live) - now
              IN  /\ timestamps' = PushExpiry(live, now, sleep_duration)
                  /\ wake_at' = now + sleep_duration
    /\ queue' = queue - 1
    /\ rl_pc' = "sleep"
    /\ UNCHANGED <<rate_limit_per_interval, interval_duration_ms, now,
                   submitted, released, via, returned, workerVars, published,
                   upVars, apiVars, streamVars, fetchVars>>

\* tokio::time::sleep returns, at its deadline or later; the request goes to
\* the transport
SleepDone ==
    /\ rl_pc = "sleep"
    /\ now >= wake_at
    /\ rl_pc' = "recv"
    /\ Release(now)
    /\ UNCHANGED <<rate_limit_per_interval, interval_duration_ms, timestamps,
                   now, wake_at, queue, submitted, via, workerVars, published,
                   upVars, apiVars, streamVars, fetchVars>>

\* a millisecond passes; a sleeping limiter is woken at most MaxLate after
\* its deadline
Tick ==
    /\ now < MaxNow
    /\ rl_pc = "sleep" => now < wake_at + MaxLate
    /\ now' = now + 1
    /\ UNCHANGED <<rate_limit_per_interval, interval_duration_ms, timestamps,
                   rl_pc, wake_at, queue, submitted, released, via, returned,
                   workerVars, published, upVars, apiVars, streamVars, fetchVars>>

InitRL ==
    /\ WorkerInit
    /\ UpstreamInit
    /\ ApiInit
    /\ StreamNew
    /\ FetchInit
    /\ \E n \in 1..MaxPermits, w \in 1..MaxWindow : RateLimiterNew(n, w)

NextRL ==
    \/ \E c \in Clones : Execute(c)
    \/ RateLimitPass
    \/ RateLimitSleep
    \/ SleepDone
    \/ Tick

SpecRL == InitRL /\ [][NextRL]_vars

\* --------------------------------- the worker against a board upstream
\* The subscription is live: the worker is past init() and has not ended,
\* and no kill signal was sent.
Subscribed ==
    pc \in {"loop", "fetch", "join", "sleep"} /\ kill = "open"

\* threads.json of the board: the live threads by ascending number, each
\* with the time of its last post as last_modified
RECURSIVE SummaryFrom(_)
SummaryFrom(n) ==
    IF n > MaxThreads THEN <<>>
    ELSE (IF upstream[n].state = "live"
          THEN <<[no |-> n,
                  last_modified |->
                      upstream[n].posts[Len(upstream[n].posts)].time]>>
          ELSE <<>>) \o SummaryFrom(n + 1)

Summary == SummaryFrom(1)

\* thread/<no>.json: the `time` of each post of the thread
Body(n) == [i \in DOMAIN upstream[n].posts |-> upstream[n].posts[i].time]

NewPost == [time |-> clock, subscribed |-> Subscribed]

NewThread(n) ==
    /\ upstream[n].state = "unborn"
    /\ upstream' = [upstream EXCEPT ![n] =
                        [state |-> "live", posts |-> <<NewPost>>]]
    /\ UNCHANGED <<clock, workerVars, published, rlVars,
                   apiVars, streamVars, fetchVars>>

NewReply(n) ==
    /\ upstream[n].state = "live"
    /\ Len(upstream[n].posts) < MaxUpstreamPosts
    /\ upstream' = [upstream EXCEPT ![n].posts = Append(@, NewPost)]
    /\ UNCHANGED <<clock, workerVars, published, rlVars,
                   apiVars, streamVars, fetchVars>>

\* the thread is deleted or falls off the board: 404 from then on
DeleteThread(n) ==
    /\ upstream[n].state = "live"
    /\ upstream' = [upstream EXCEPT ![n].state = "gone"]
    /\ UNCHANGED <<clock, workerVars, published, rlVars,
                   apiVars, streamVars, fetchVars>>

ClockTick ==
    /\ clock < MaxTime
    /\ clock' = clock + 1
    /\ UNCHANGED <<upstream, workerVars, published, rlVars,
                   apiVars, streamVars, fetchVars>>

\* init() and update_board() with the summary the board serves
LiveInitOk == InitOk(Summary)

LiveUpdateBoardOk == UpdateBoardOk(Summary)

\* get_thread with the body the board serves, or its 404
LiveTaskOk(t) == upstream[t.no].state = "live" /\ TaskOk(t, Body(t.no))

LiveTask404(t) == upstream[t.no].state # "live" /\ TaskErr(t, "404")

WorkerStep ==
    \/ LiveInitOk
    \/ InitErr
    \/ InitPanic
    \/ LoopKilled
    \/ LoopContinue
    \/ LiveUpdateBoardOk
    \/ UpdateBoardErr
    \/ UpdateBoardPanic
    \/ Join
    \/ Wake

TaskStep ==
    \/ \E t \in tasks : LiveTaskOk(t)
    \/ \E t \in tasks : LiveTask404(t)
    \/ \E t \in tasks : TaskErr(t, "500")
    \/ \E t \in tasks : TaskPanic(t)
    \/ \E t \in tasks : TaskSend(t)

UpstreamStep ==
    \/ \E n \in UpstreamNos : NewThread(n)
    \/ \E n \in UpstreamNos : NewReply(n)
    \/ \E n \in UpstreamNos : DeleteThread(n)
    \/ ClockTick

NextLive ==
    \/ WorkerStep
    \/ TaskStep
    \/ UpstreamStep
    \/ KillWorker
    \/ DropKill
    \/ Forward
    \/ Recv

\* The runtime schedules every task that can run: the worker, the fetch
\* tasks and the forwarder; the consumer keeps receiving.
FairLive ==
    /\ WF_vars(WorkerStep)
    /\ WF_vars(TaskStep)
    /\ WF_vars(Forward)
    /\ WF_vars(Recv)

LiveSpec == Init /\ [][NextLive]_vars /\ FairLive

\* ----------------------------------------------------------- properties
\* A post that appeared upstream while the subscription was live.
Appeared(n, k) ==
    /\ upstream[n].state = "live"
    /\ k <= Len(upstream[n].posts)
    /\ upstream[n].posts[k].subscribed

\* The outcomes that settle a post: it was published, its thread is gone
\* for good, the subscription was ended, or the run is at the last cycle
\* of the model.
Settled(n, k) ==
    \/ [no |-> n, k |-> k] \in published
    \/ upstream[n].state = "gone"
    \/ kill # "open"
    \/ cycle = MaxCycles

\* C1: every window of duration T >= W holds at most ceil(T/W)*N + N
\* releases: for any two releases, those from the first to the second number
\* at most the bound of the shortest window of duration >= W that holds both.
C1_GlobalRateBound ==
    \A i, j \in DOMAIN released :
        i <= j =>
            LET T == Max(interval_duration_ms, released[j] - released[i])
            IN  j - i + 1 <= Ceil(T, interval_duration_ms)
                                 * rate_limit_per_interval
                             + rate_limit_per_interval

SummaryLm(no) ==
    LET i == CHOOSE j \in DOMAIN pages : pages[j].no = no
    IN  UnwrapOr(pages[i].last_modified, 0)

\* The events a task has sent on new_posts_chan so far.
Published(t) == SubSeq(t.new_posts, 1, t.n_sent)

InFlight == events_tx \o new_posts_chan

\* C2: a post that appears in a thread while the subscription is live is
\* eventually published, unless its thread is gone for good or the
\* subscription is ended.
C2_AtLeastOnce ==
    \A n \in UpstreamNos, k \in 1..MaxUpstreamPosts :
        Appeared(n, k) ~> Settled(n, k)

\* C3: when a thread fetch of a cycle fails (an error value after a 404 or
\* after the retries, or a transport failure), no event is published for the
\* thread in that cycle and, after the join, its last_modified is back at the
\* value it had before the cycle.
C3_FailedFetchRolledBack ==
    pc = "sleep" =>
        \A t \in CurrentTasks :
            t.outcome # "ok" =>
                /\ t.n_sent = 0
                /\ t.no \in DOMAIN threads
                /\ threads[t.no].last_modified = LastModifiedIn(before, t.no)

\* C4: a thread whose fetch failed in the last joined cycle, and that the next
\* summary lists with a last_modified above the value the thread had before
\* the failed cycle, is fetched again in the next cycle, with that value as
\* the bound of the new-post filter.
C4_FailedThreadRedetected ==
    pc = "join" =>
        \A n \in DOMAIN failed :
            (n \in PageNos(pages) /\ SummaryLm(n) > failed[n]) =>
                \E t \in CurrentTasks :
                    /\ t.no = n
                    /\ t.prev_last_modified = failed[n]
                    /\ t.outcome = "ok" =>
                           t.new_posts = NewPosts(t.body, failed[n])

\* C5: after the join of a cycle in which the fetch of thread n succeeded,
\* the last_modified of n is at least what it was before the cycle.
C5_MonotoneOnSuccess ==
    pc = "sleep" =>
        \A t \in CurrentTasks :
            t.outcome = "ok" =>
                /\ t.no \in DOMAIN threads
                /\ threads[t.no].last_modified >= LastModifiedIn(before, t.no)

C5_Witness ==
    /\ pc = "sleep"
    /\ \E t \in CurrentTasks :
          /\ t.outcome = "ok"
          /\ t.no \in DOMAIN before
          /\ before[t.no].last_modified > 0
          /\ threads[t.no].last_modified > before[t.no].last_modified

\* C6: a task whose fetch succeeded publishes exactly the posts of the
\* returned body whose time is above the last_modified the thread had before
\* this cycle's diff (0 for a thread the cache did not hold), in body order;
\* posts at or below it, and posts without a time, are not published.
C6_PublishedAreNewPosts ==
    \A t \in CurrentTasks :
        (t.outcome = "ok" /\ t.state = "done") =>
            Published(t) = NewPosts(t.body, LastModifiedIn(before, t.no))

C6_Witness ==
    \E t, u \in CurrentTasks :
        /\ t.outcome = "ok" /\ t.state = "done"
        /\ u.outcome = "ok" /\ u.state = "done"
        /\ LastModifiedIn(before, t.no) > 0
        /\ Len(t.body) > 0 /\ Published(t) # <<>>
        /\ Len(u.body) > 0 /\ u.body[1] # None /\ Published(u) = <<>>

\* C7: after initialisation and after every successful summary fetch, the
\* cache holds exactly the thread numbers of that summary, and no task or
\* event of the cycle belongs to a thread the summary does not list.
C7_EvictionComplete ==
    /\ DOMAIN threads = PageNos(pages)
    /\ \A t \in CurrentTasks : t.no \in PageNos(pages)

C7_Witness ==
    /\ pc = "sleep"
    /\ DOMAIN before \ DOMAIN threads # {}
    /\ DOMAIN threads # {}

\* C8: initialisation spawns no task and sends no event, and no event is
\* sent for a thread of the initial snapshot before a later cycle has seen
\* its last_modified above the watermark.
C8_InitPublishesNothing ==
    /\ cycle = 0 => (tasks = {} /\ InFlight = <<>>)
    /\ \A t \in tasks : t.n_sent > 0 => t.no \notin quiet
    /\ \A i \in DOMAIN InFlight : InFlight[i].no \notin quiet

C8_Witness ==
    /\ cycle = 1
    /\ quiet # {}
    /\ \E t \in CurrentTasks :
          t.n_sent > 0 /\ t.no \in DOMAIN before /\ before[t.no].last_modified > 0

\* C9: a failed summary fetch leaves the cache and the channel as they are
\* and the worker goes on to its sleep.
C9_SummaryFailureSkipsCycle ==
    [][(pc = "fetch" /\ pc' \notin {"fetch", "join"}) =>
           (pc' = "sleep" /\ UNCHANGED <<threads, tasks, new_posts_chan>>)]_vars

\* C10: when a cycle begins, every task of an earlier cycle has sent all of
\* its events, and the consumer receives events in cycle order.
C10_CycleBarrier ==
    /\ \A t \in tasks : t.cycle < cycle => t.state = "done"
    /\ \A i, j \in DOMAIN InFlight : i < j => InFlight[i].cycle <= InFlight[j].cycle
    /\ \A i \in DOMAIN InFlight : lastRecv <= InFlight[i].cycle

C10_Witness ==
    /\ cycle = MaxCycles
    /\ lastRecv = 1
    /\ \E i \in DOMAIN InFlight : InFlight[i].cycle = MaxCycles

\* ------------------------------------------------ api: the response cache
\* a message on the cache task's channel; from is the caller that waits for
\* the reply, 0 for a holder of the cache outside the client
CacheRequest(op, endpoint, payload, from) ==
    [op |-> op, endpoint |-> endpoint, payload |-> payload, from |-> from]

\* CacheInner::cleanup: the endpoints it finds to clean at time t
EntriesToClean(lc, t) ==
    {e \in Endpoints :
        lc[e] # None /\ NumSeconds(lc[e] - t) > MAX_CACHE_TIME_S}

Cleanup(map, lc, t, none) ==
    [e \in Endpoints |-> IF e \in EntriesToClean(lc, t) THEN none ELSE map[e]]

\* the end of one pass of the cache task's loop, the maps being lc and lr
\* after the request was handled: counter += 1, and cleanup at
\* CLEANUP_INTERVAL
LoopPass(lc, lr) ==
    IF counter + 1 = CLEANUP_INTERVAL
    THEN /\ counter' = 0
         /\ last_called' = Cleanup(lc, lc, utc, None)
         /\ last_response' = Cleanup(lr, lc, utc, NoPayload)
    ELSE /\ counter' = counter + 1
         /\ last_called' = lc
         /\ last_response' = lr

IfModifiedSince_Never(time) == None

\* Client::new_request: the If-Modified-Since header made of the reply of
\* ClientCache::last_called, None when the request carries no such header
IfModifiedSince(time) == IF time = None THEN None ELSE ToRfc2822(time)

\* the reply of the cache reaches the caller that waits for it
Reply(from, c) == IF from = 0 THEN call ELSE [call EXCEPT ![from] = c]

\* handle_last_called; the caller builds its request and hands it to
\* RateLimitedClient::execute
HandleLastCalled ==
    /\ inbox # <<>>
    /\ Head(inbox).op = "LastCalled"
    /\ LET m == Head(inbox)
       IN  call' = Reply(m.from,
                         [call[m.from] EXCEPT
                             !.pc = "execute",
                             !.header = IfModifiedSince(
                                            last_called[m.endpoint])])
    /\ inbox' = Tail(inbox)
    /\ LoopPass(last_called, last_response)
    /\ UNCHANGED <<utc, calls, done200, last200, workerVars, published,
                   upVars, rlVars,
                   streamVars, fetchVars>>

HandleUpdate_StampOnly ==
    /\ inbox # <<>>
    /\ Head(inbox).op = "Update"
    /\ LET m == Head(inbox)
       IN  LoopPass([last_called EXCEPT ![m.endpoint] = utc], last_response)
    /\ inbox' = Tail(inbox)
    /\ UNCHANGED <<utc, call, calls, done200, last200, workerVars, published,
                   upVars, rlVars,
                   streamVars, fetchVars>>

\* handle_update: the stamp is chrono::Utc::now()
HandleUpdate ==
    /\ inbox # <<>>
    /\ Head(inbox).op = "Update"
    /\ LET m == Head(inbox)
       IN  LoopPass([last_called EXCEPT ![m.endpoint] = utc],
                    [last_response EXCEPT ![m.endpoint] = m.payload])
    /\ inbox' = Tail(inbox)
    /\ UNCHANGED <<utc, call, calls, done200, last200, workerVars, published,
                   upVars, rlVars,
                   streamVars, fetchVars>>

UnwrapLastResponse_NotModified(c, payload) ==
    [c EXCEPT !.pc = "done",
              !.result = Ok([variant |-> "NotModified", body |-> 0])]

\* the caller's end of Client::handle_response on a 304: unwrap() of the
\* reply of ClientCache::last_response
UnwrapLastResponse(c, payload) ==
    IF payload = NoPayload
    THEN [c EXCEPT !.pc = "panicked"]
    ELSE [c EXCEPT !.pc = "done", !.result = Ok(payload)]

HandleLastResponse_Overtake ==
    \E i \in DOMAIN inbox :
        /\ inbox[i].op = "LastResponse"
        /\ LET m == inbox[i]
           IN  call' = Reply(m.from,
                             UnwrapLastResponse(call[m.from],
                                                last_response[m.endpoint]))
        /\ inbox' = [j \in 1..(Len(inbox) - 1) |->
                         IF j < i THEN inbox[j] ELSE inbox[j + 1]]
        /\ LoopPass(last_called, last_response)
        /\ UNCHANGED <<utc, calls, done200, last200, workerVars, published,
                       upVars, rlVars,
                       streamVars, fetchVars>>

\* handle_last_response
HandleLastResponse ==
    /\ inbox # <<>>
    /\ Head(inbox).op = "LastResponse"
    /\ LET m == Head(inbox)
       IN  call' = Reply(m.from,
                         UnwrapLastResponse(call[m.from],
                                            last_response[m.endpoint]))
    /\ inbox' = Tail(inbox)
    /\ LoopPass(last_called, last_response)
    /\ UNCHANGED <<utc, calls, done200, last200, workerVars, published,
                   upVars, rlVars,
                   streamVars, fetchVars>>

\* a holder of the ClientCache outside the client calls last_called, update
\* or last_response
CacheSend(op, e, b) ==
    /\ Len(inbox) < MaxInbox
    /\ inbox' = Append(inbox,
                       CacheRequest(op, e,
                                    IF op = "Update" THEN Parse(e, b)
                                    ELSE NoPayload, 0))
    /\ UNCHANGED <<last_called, last_response, counter, utc, call, calls,
                   done200, last200, workerVars, published, upVars, rlVars,
                   streamVars, fetchVars>>

\* the wait of an hour and a second
Hour == TicksPerSec * (MAX_CACHE_TIME_S + 1)

CacheTick ==
    /\ utc % Hour < MaxTicks
    /\ utc' = utc + 1
    /\ UNCHANGED <<last_called, last_response, counter, inbox, call, calls,
                   done200, last200, workerVars, published, upVars, rlVars,
                   streamVars, fetchVars>>

HourPasses ==
    /\ utc < MaxHours * Hour
    /\ utc' = utc + Hour
    /\ UNCHANGED <<last_called, last_response, counter, inbox, call, calls,
                   done200, last200, workerVars, published, upVars, rlVars,
                   streamVars, fetchVars>>

NextCache ==
    \/ \E op \in {"LastCalled", "Update", "LastResponse"}, e \in Endpoints,
          b \in 1..MaxBodies : CacheSend(op, e, b)
    \/ HandleLastCalled
    \/ HandleUpdate
    \/ HandleLastResponse
    \/ CacheTick
    \/ HourPasses

SpecCache == Init /\ [][NextCache]_vars

\* ---------------------------------------------------- api: the client
\* Client::get_with_retry is called with Config.max_retries = m
GetWithRetry(p, e, m) ==
    /\ call[p].pc \in {"idle", "done"}
    /\ calls < MaxCalls
    /\ calls' = calls + 1
    /\ call' = [call EXCEPT ![p] = [IdleCall EXCEPT !.pc = "retry",
                                                    !.endpoint = e,
                                                    !.max_retries = m]]
    /\ UNCHANGED <<cacheVars, done200, last200, workerVars, published,
                   upVars, rlVars,
                   streamVars, fetchVars>>

\* the top of the loop: sleep(retries seconds), then get -> new_request ->
\* ClientCache::last_called sends its message
Attempt(p) ==
    /\ call[p].pc = "retry"
    /\ call' = [call EXCEPT ![p].pc = "last_called",
                            ![p].slept = @ + call[p].retries,
                            ![p].attempts = @ + 1,
                            ![p].header = None,
                            ![p].floor = done200[call[p].endpoint]]
    /\ inbox' = Append(inbox,
                       CacheRequest("LastCalled", call[p].endpoint,
                                    NoPayload, p))
    /\ UNCHANGED <<last_called, last_response, counter, utc, calls, done200,
                   last200, workerVars, published, upVars, rlVars,
                   streamVars, fetchVars>>

\* if let Error::StatusCode(ref code) = e { if code == "404" ... }
Is404_Never(e) == FALSE

Is404(e) == e.tag = "StatusCode" /\ e.code = 404

\* the Err arm of get_with_retry
OnError(c, e) ==
    IF Is404(e)
    THEN [c EXCEPT !.pc = "done", !.result = e]
    ELSE IF c.retries + 1 > c.max_retries
         THEN [c EXCEPT !.pc = "done", !.result = e,
                        !.retries = c.retries + 1]
         ELSE [c EXCEPT !.pc = "retry", !.retries = c.retries + 1]

\* 200 with a body that decodes: parse, ClientCache::update, Ok(parsed)
Respond200(p, b) ==
    /\ call[p].pc = "execute"
    /\ LET e == call[p].endpoint
           parsed == Parse(e, b)
       IN  /\ inbox' = Append(inbox, CacheRequest("Update", e, parsed, 0))
           /\ call' = [call EXCEPT ![p].pc = "done", ![p].status = 200,
                                   ![p].result = Ok(parsed)]
           /\ done200' = [done200 EXCEPT ![e] = utc]
           /\ last200' = [last200 EXCEPT ![e] = parsed]
    /\ UNCHANGED <<last_called, last_response, counter, utc, calls,
                   workerVars, published, upVars, rlVars,
                   streamVars, fetchVars>>

RespondUndecodable_Caches(p) ==
    /\ call[p].pc = "execute"
    /\ call' = [call EXCEPT
                   ![p] = OnError([call[p] EXCEPT !.status = 200],
                                  Err("Reqwest", 0))]
    /\ inbox' = Append(inbox,
                       CacheRequest("Update", call[p].endpoint,
                                    Parse(call[p].endpoint, 1), 0))
    /\ UNCHANGED <<last_called, last_response, counter, utc, calls, done200,
                   last200, workerVars, published, upVars, rlVars,
                   streamVars, fetchVars>>

\* 200 with a body that does not decode: parse returns Err(Error::Reqwest)
RespondUndecodable(p) ==
    /\ call[p].pc = "execute"
    /\ call' = [call EXCEPT
                   ![p] = OnError([call[p] EXCEPT !.status = 200],
                                  Err("Reqwest", 0))]
    /\ UNCHANGED <<cacheVars, calls, done200, last200, workerVars, published,
                   upVars, rlVars,
                   streamVars, fetchVars>>

\* 304: ClientCache::last_response sends its message
Respond304(p) ==
    /\ call[p].pc = "execute"
    /\ call' = [call EXCEPT ![p].pc = "last_response", ![p].status = 304,
                            ![p].latest = last200[call[p].endpoint]]
    /\ inbox' = Append(inbox,
                       CacheRequest("LastResponse", call[p].endpoint,
                                    NoPayload, p))
    /\ UNCHANGED <<last_called, last_response, counter, utc, calls, done200,
                   last200, workerVars, published, upVars, rlVars,
                   streamVars, fetchVars>>

\* any other status: Err(Error::StatusCode(code))
RespondStatus(p, code) ==
    /\ call[p].pc = "execute"
    /\ call' = [call EXCEPT
                   ![p] = OnError([call[p] EXCEPT !.status = code],
                                  Err("StatusCode", code))]
    /\ UNCHANGED <<cacheVars, calls, done200, last200, workerVars, published,
                   upVars, rlVars,
                   streamVars, fetchVars>>

\* the transport fails: client.execute(request).await.unwrap() panics in the
\* task handle_execute spawned, the reply channel closes, and
\* rx.recv().await.unwrap() in RateLimitedClient::execute panics the caller
TransportFailure(p) ==
    /\ call[p].pc = "execute"
    /\ call' = [call EXCEPT ![p].pc = "panicked", ![p].status = 0]
    /\ UNCHANGED <<cacheVars, calls, done200, last200, workerVars, published,
                   upVars, rlVars,
                   streamVars, fetchVars>>

NextClient ==
    \/ \E p \in Callers, e \in Endpoints, m \in 0..MaxRetriesCap :
          GetWithRetry(p, e, m)
    \/ \E p \in Callers : Attempt(p)
    \/ HandleLastCalled
    \/ HandleUpdate
    \/ HandleLastResponse
    \/ \E p \in Callers, b \in 1..MaxBodies : Respond200(p, b)
    \/ \E p \in Callers : RespondUndecodable(p)
    \/ \E p \in Callers : Respond304(p)
    \/ \E p \in Callers, code \in {404, 500} : RespondStatus(p, code)
    \/ \E p \in Callers : TransportFailure(p)
    \/ CacheTick

SpecClient == Init /\ [][NextClient]_vars

\* The posts of event e's thread and cycle that are still on their way to the
\* consumer: in a channel, or not yet sent by the task.
SameThreadAndCycle(e, f) == e.cycle = f.cycle /\ e.no = f.no

PendingKs(e, chans, ts) ==
    {chans[i].k : i \in {j \in DOMAIN chans : SameThreadAndCycle(e, chans[j])}}
    \cup UNION {{t.new_posts[i].k : i \in (t.n_sent + 1)..Len(t.new_posts)} :
                 t \in {u \in ts : SameThreadAndCycle(e, u)}}

\* C11: when the consumer receives a post, every post of the same thread and
\* cycle that is still to come stands later in the thread body, so the posts
\* of one thread and cycle arrive in body order.
C11_BodyOrder ==
    [][Len(events_tx') < Len(events_tx) =>
           \A k \in PendingKs(Head(events_tx), InFlight', tasks') :
               k > Head(events_tx).k]_vars

C11_Witness ==
    /\ Len(InFlight) = 1
    /\ events_tx # <<>>
    /\ Head(events_tx).k = 2
    /\ lastRecv = Head(events_tx).cycle
    /\ \E t \in tasks :
          /\ SameThreadAndCycle(Head(events_tx), t)
          /\ Len(t.new_posts) = 2
          /\ t.n_sent = 2

\* The burst bound alone: the n-th release of a limiter comes no sooner than
\* floor((n - 1) / N) * W after its first.
BurstBound ==
    \A n \in DOMAIN released :
        released[n] - released[1]
            >= ((n - 1) \div rate_limit_per_interval) * interval_duration_ms

\* C19: n acquires are not all released before floor((n - 1) / N) * W has
\* passed since the first, and with N = 1 the queued requests are released
\* W apart, never two at once.
C19_BurstReleasedWApart ==
    /\ BurstBound
    /\ rate_limit_per_interval = 1 =>
           \A i \in 1..(Len(released) - 1) :
               released[i + 1] - released[i] >= interval_duration_ms

\* C12: a request that get builds for an endpoint after a get of that
\* endpoint ended with a 200 carries an If-Modified-Since header, and the
\* header is the RFC-2822 date of a stamp the cache gave the endpoint at or
\* after that 200: it lies between the date of the 200 and the date of the
\* stamp the cache holds now.
C12_ConditionalRequest ==
    \A p \in Callers :
        (call[p].pc = "execute" /\ call[p].floor # None) =>
            /\ call[p].header # None
            /\ ToRfc2822(call[p].floor) <= call[p].header
            /\ call[p].header <= ToRfc2822(last_called[call[p].endpoint])

C12_Witness ==
    \E p \in Callers :
        /\ call[p].pc = "execute"
        /\ call[p].floor # None
        /\ call[p].header = ToRfc2822(last_called[call[p].endpoint])
        /\ last_called[call[p].endpoint] > call[p].floor
        /\ call[p].header > 0

\* The Update messages for endpoint e that the cache task has yet to handle.
PendingUpdates(e) ==
    {i \in DOMAIN inbox : inbox[i].op = "Update" /\ inbox[i].endpoint = e}

\* C13: a get that ends on a 304 returns the payload the cache holds for the
\* endpoint, which is the payload of the last 200 once every update sent is
\* stored, and the step leaves both maps of the cache as they were.
C13_Replay304 ==
    [][\A p \in Callers :
           (call[p].pc = "last_response" /\ call'[p].pc = "done") =>
               LET e == call[p].endpoint
               IN  /\ last_response[e] # NoPayload
                   /\ call'[p].result = Ok(last_response[e])
                   /\ PendingUpdates(e) = {} =>
                          call'[p].result.value = last200[e]
                   /\ last_called' = last_called
                   /\ last_response' = last_response]_vars

C13_Witness ==
    \E p \in Callers :
        /\ call[p].pc = "done"
        /\ call[p].status = 304
        /\ call[p].result = Ok(last200[call[p].endpoint])
        /\ call[p].result.value.body = MaxBodies
        /\ last_response[call[p].endpoint] = last200[call[p].endpoint]

\* C14: a 304 for an endpoint with no cached payload makes get return the
\* error InvalidResponse; the calling task does not crash.
C14_NoCached304IsInvalidResponse ==
    \A p \in Callers :
        call[p].status = 304 =>
            /\ call[p].pc # "panicked"
            /\ call[p].pc = "done" =>
                   call[p].result.tag \in {"Ok", "InvalidResponse"}

\* C15: a transport failure comes out of get as an error value and is
\* retried like a status error that is not 404: the caller does not crash,
\* and the call ends with that error only once the cap is used up.
C15_TransportFailureIsRetried ==
    \A p \in Callers :
        call[p].status = 0 =>
            /\ call[p].pc # "panicked"
            /\ call[p].pc = "done" =>
                   /\ call[p].result.tag = "Reqwest"
                   /\ call[p].attempts = call[p].max_retries + 1

\* C16: the attempt that meets status 404 ends the call with
\* StatusCode(404) at once, whatever the cap and the number of the attempt:
\* the attempts made are those before it and itself, the sleeps are those
\* that preceded them, and retries is not raised.
C16_ShortCircuit404 ==
    [][\A p \in Callers :
           (call[p].pc = "execute" /\ call'[p] # call[p]
                /\ call'[p].status = 404) =>
               /\ call'[p].pc = "done"
               /\ call'[p].result = Err("StatusCode", 404)
               /\ call'[p].retries = call[p].retries
               /\ call'[p].attempts = call[p].retries + 1
               /\ call'[p].slept = call[p].slept
               /\ 2 * call'[p].slept
                      = call[p].retries * (call[p].retries + 1)]_vars

C16_Witness ==
    \E p \in Callers :
        /\ call[p].pc = "done"
        /\ call[p].result = Err("StatusCode", 404)
        /\ call[p].attempts = 2
        /\ call[p].retries = 1
        /\ call[p].max_retries = 1

\* The error value that Client::get makes of the last response.
ErrorOf(status) ==
    IF status = 200 THEN Err("Reqwest", 0) ELSE Err("StatusCode", status)

\* The part of C17 about the calls that return: never more than m + 1
\* attempts, an error returned is that of the last attempt and, unless it
\* is a 404, comes with attempt m + 1.
RetryBound ==
    \A p \in Callers :
        /\ call[p].attempts <= call[p].max_retries + 1
        /\ (call[p].pc = "done" /\ call[p].result.tag # "Ok") =>
               /\ call[p].result = ErrorOf(call[p].status)
               /\ call[p].status # 404 =>
                      call[p].attempts = call[p].max_retries + 1

\* C17: with a finite cap m a call makes at most m + 1 attempts and, when
\* its attempts meet errors other than 404, returns the error of the last
\* one: no attempt ends the calling task without a return.
C17_BoundedRetry ==
    /\ RetryBound
    /\ \A p \in Callers : call[p].pc # "panicked"

\* C18: the cache holds no entry last updated more than one hour ago. It is
\* asked here of the states an eviction sweep leaves, where it must hold
\* even though the sweep runs only every CLEANUP_INTERVAL requests.
C18_CacheTTL ==
    [][(counter = CLEANUP_INTERVAL - 1 /\ counter' = 0) =>
           \A e \in Endpoints :
               last_called'[e] # None =>
                   utc' - last_called'[e]
                       <= TicksPerSec * MAX_CACHE_TIME_S]_vars

C29_NewThreadMarkedModified ==
    pc = "join" =>
        \A i \in DOMAIN pages :
            pages[i].no \notin DOMAIN before =>
                /\ pages[i].no \in DOMAIN threads
                /\ \E t \in CurrentTasks : t.no = pages[i].no

\* C24: a worker whose cancel signal was sent, or whose cancel handle was
\* dropped, leaves its next loop-head check by returning Ok(()), and no
\* polling cycle starts from a loop-head check made after the signal or the
\* drop.
C24_CancelAtLoopHead ==
    [][/\ (pc = "loop" /\ kill # "open" /\ pc' # pc) =>
              (pc' = "stopped" /\ cycle' = cycle)
       /\ cycle' # cycle => kill = "open"]_vars

C24_Witness ==
    /\ pc = "stopped"
    /\ kill = "sent"
    /\ cycle = 1
    /\ pages # <<>>

\* ------------------------------------------ stream/client.rs: the Stream
MaxWorkers == 2      \* workers one Stream starts
MaxStreamCalls == 4  \* subscribe and unsubscribe calls on one Stream
MaxEvents == 1       \* events one worker publishes

\* the boards upstream can list, and the lists get_boards can return
BoardNames == {"g", "v"}
BoardLists == SUBSET BoardNames

Returned(op, board, result) ==
    [op |-> op, board |-> board, result |-> result, n |-> ret.n + 1]

\* start_worker and the forwarder of subscribe: a oneshot kill channel, the
\* worker task at init(), an empty mpsc channel and its forwarder
start_worker(board) ==
    [board |-> board, kill |-> "open", pc |-> "init", sent |-> 0,
     chan |-> <<>>, fwd |-> "running"]

ContainsKey_Never(b) == FALSE

\* self.workers.contains_key(&sub.board_name)
ContainsKey(b) == b \in DOMAIN workers

\* get_board_data: the lists the lookup can run on; the cached list when it
\* is not empty, else the list a get_boards request returns
get_board_data == IF boards = {} THEN BoardLists ELSE {boards}

Find_Any(list, b) == TRUE

\* self.boards.iter().find(|b| b.board == board)
Find(list, b) == b \in list

\* dropping the Stream drops the kill handles still in the registry
DropHandles ==
    [w \in DOMAIN ws |->
        IF (\E b \in DOMAIN workers : workers[b] = w) /\ ws[w].kill = "open"
        THEN [ws[w] EXCEPT !.kill = "closed"]
        ELSE ws[w]]

\* subscribe: the board is registered already
SubscribeAlready(b) ==
    /\ stream = "up" /\ ret.n < MaxStreamCalls
    /\ ContainsKey(b)
    /\ ret' = Returned("subscribe", b, "AlreadySubscribed")
    /\ UNCHANGED <<boards, workers, ws, consumer, stream, http, workerVars,
                   published, upVars, rlVars, apiVars, fetchVars>>

\* subscribe: get_boards returns an error and `?` hands it to the caller
SubscribeApiError(b) ==
    /\ stream = "up" /\ ret.n < MaxStreamCalls
    /\ ~ContainsKey(b)
    /\ boards = {}
    /\ http' = http + 1
    /\ ret' = Returned("subscribe", b, "RchanApi")
    /\ UNCHANGED <<boards, workers, ws, consumer, stream, workerVars,
                   published, upVars, rlVars, apiVars, fetchVars>>

\* subscribe: the request of get_boards fails in transport and the call
\* panics; unwinding drops the Stream
SubscribePanic(b) ==
    /\ stream = "up" /\ ret.n < MaxStreamCalls
    /\ ~ContainsKey(b)
    /\ boards = {}
    /\ http' = http + 1
    /\ ret' = Returned("subscribe", b, "panicked")
    /\ stream' = "dropped"
    /\ ws' = DropHandles
    /\ workers' = <<>>
    /\ UNCHANGED <<boards, consumer, workerVars, published, upVars, rlVars,
                   apiVars, fetchVars>>

\* subscribe: the list does not hold the board
SubscribeNotFound(b, list) ==
    /\ stream = "up" /\ ret.n < MaxStreamCalls
    /\ ~ContainsKey(b)
    /\ list \in get_board_data
    /\ ~Find(list, b)
    /\ http' = IF boards = {} THEN http + 1 ELSE http
    /\ boards' = list
    /\ ret' = Returned("subscribe", b, "BoardNotFound")
    /\ UNCHANGED <<workers, ws, consumer, stream, workerVars, published,
                   upVars, rlVars, apiVars, fetchVars>>

\* subscribe: the board is found, its worker and forwarder are started and
\* the kill handle is registered
SubscribeOk(b, list) ==
    /\ stream = "up" /\ ret.n < MaxStreamCalls
    /\ Len(ws) < MaxWorkers
    /\ ~ContainsKey(b)
    /\ list \in get_board_data
    /\ Find(list, b)
    /\ http' = IF boards = {} THEN http + 1 ELSE http
    /\ boards' = list
    /\ ws' = Append(ws, start_worker(b))
    /\ workers' = Put(workers, b, Len(ws) + 1)
    /\ ret' = Returned("subscribe", b, "Ok")
    /\ UNCHANGED <<consumer, stream, workerVars, published, upVars, rlVars,
                   apiVars, fetchVars>>

kill_worker_KeepEntry(b) == workers

\* if let Some(worker) = self.workers.remove(board)
kill_worker(b) == [x \in DOMAIN workers \ {b} |-> workers[x]]

\* unsubscribe: kill_worker removes the handle and sends on it; the result
\* of the send is ignored
Unsubscribe(b) ==
    /\ stream = "up" /\ ret.n < MaxStreamCalls
    /\ IF b \in DOMAIN workers
       THEN /\ workers' = kill_worker(b)
            /\ ws' = [ws EXCEPT ![workers[b]].kill =
                        IF ws[workers[b]].pc = "ended" THEN @ ELSE "sent"]
       ELSE UNCHANGED <<workers, ws>>
    /\ ret' = Returned("unsubscribe", b, "Ok")
    /\ UNCHANGED <<boards, consumer, stream, http, workerVars, published,
                   upVars, rlVars, apiVars, fetchVars>>

\* the Stream is dropped: its kill handles and its sender of the consumer
\* channel go with it
DropStream ==
    /\ stream = "up"
    /\ stream' = "dropped"
    /\ ws' = DropHandles
    /\ workers' = <<>>
    /\ UNCHANGED <<boards, consumer, http, ret, workerVars, published,
                   upVars, rlVars, apiVars, fetchVars>>

SetWorker(w, r) ==
    /\ ws' = [ws EXCEPT ![w] = r]
    /\ UNCHANGED <<boards, workers, consumer, stream, http, ret, workerVars,
                   published, upVars, rlVars, apiVars, fetchVars>>

\* worker.rs run(): self.init().await? succeeds
WorkerInitOk(w) ==
    /\ ws[w].pc = "init"
    /\ SetWorker(w, [ws[w] EXCEPT !.pc = "loop"])

\* run() ends early: init() fails, or update_board fails and unwrap panics
WorkerFail(w) ==
    /\ ws[w].pc \in {"init", "cycle"}
    /\ SetWorker(w, [ws[w] EXCEPT !.pc = "ended"])

WorkerLoopKilled_SignalOnly(w) ==
    /\ ws[w].pc = "loop"
    /\ ws[w].kill = "sent"
    /\ SetWorker(w, [ws[w] EXCEPT !.pc = "ended"])

\* rx.try_recv() at the loop head: a signal or a closed channel ends run()
WorkerLoopKilled(w) ==
    /\ ws[w].pc = "loop"
    /\ ws[w].kill # "open"
    /\ SetWorker(w, [ws[w] EXCEPT !.pc = "ended"])

WorkerLoopContinue(w) ==
    /\ ws[w].pc = "loop"
    /\ ws[w].kill = "open"
    /\ SetWorker(w, [ws[w] EXCEPT !.pc = "cycle"])

\* a fetch task of the cycle sends a post on the worker's channel
WorkerPublish(w) ==
    /\ ws[w].pc = "cycle"
    /\ ws[w].sent < MaxEvents
    /\ Len(ws[w].chan) < ChanCap
    /\ SetWorker(w, [ws[w] EXCEPT
           !.sent = @ + 1,
           !.chan = Append(@, [w |-> w, k |-> ws[w].sent + 1])])

\* update_board returns and run() sleeps until the next loop head
WorkerSleep(w) ==
    /\ ws[w].pc = "cycle"
    /\ SetWorker(w, [ws[w] EXCEPT !.pc = "loop"])

\* the forwarder: events_tx.send(new_event).await
ForwardEvent(w) ==
    /\ ws[w].fwd = "running"
    /\ ws[w].chan # <<>>
    /\ Len(consumer) < ConsumerCap
    /\ consumer' = Append(consumer, Head(ws[w].chan))
    /\ ws' = [ws EXCEPT ![w].chan = Tail(@)]
    /\ UNCHANGED <<boards, workers, stream, http, ret, workerVars, published,
                   upVars, rlVars, apiVars, fetchVars>>

\* the forwarder: events_rx.recv() yields None once the worker has ended
\* and its channel is drained; the task ends and drops its sender
ForwarderEnd(w) ==
    /\ ws[w].fwd = "running"
    /\ ws[w].pc = "ended"
    /\ ws[w].chan = <<>>
    /\ SetWorker(w, [ws[w] EXCEPT !.fwd = "ended"])

\* the consumer takes the next event
ConsumerRecv ==
    /\ consumer # <<>>
    /\ consumer' = Tail(consumer)
    /\ UNCHANGED <<boards, workers, ws, stream, http, ret, workerVars,
                   published, upVars, rlVars, apiVars, fetchVars>>

WorkerRun(w) ==
    \/ WorkerInitOk(w)
    \/ WorkerFail(w)
    \/ WorkerLoopKilled(w)
    \/ WorkerLoopContinue(w)
    \/ WorkerPublish(w)
    \/ WorkerSleep(w)

ForwarderRun(w) ==
    \/ ForwardEvent(w)
    \/ ForwarderEnd(w)

NextStream ==
    \/ \E b \in BoardNames : SubscribeAlready(b)
    \/ \E b \in BoardNames : SubscribeApiError(b)
    \/ \E b \in BoardNames : SubscribePanic(b)
    \/ \E b \in BoardNames, list \in BoardLists : SubscribeNotFound(b, list)
    \/ \E b \in BoardNames, list \in BoardLists : SubscribeOk(b, list)
    \/ \E b \in BoardNames : Unsubscribe(b)
    \/ DropStream
    \/ \E w \in DOMAIN ws : WorkerInitOk(w)
    \/ \E w \in DOMAIN ws : WorkerFail(w)
    \/ \E w \in DOMAIN ws : WorkerLoopKilled(w)
    \/ \E w \in DOMAIN ws : WorkerLoopContinue(w)
    \/ \E w \in DOMAIN ws : WorkerPublish(w)
    \/ \E w \in DOMAIN ws : WorkerSleep(w)
    \/ \E w \in DOMAIN ws : ForwardEvent(w)
    \/ \E w \in DOMAIN ws : ForwarderEnd(w)
    \/ ConsumerRecv

SpecStream == Init /\ [][NextStream]_vars

\* The runtime schedules every spawned task that can run, and the consumer
\* keeps receiving; nothing obliges the owner of the Stream to call it.
FairStream ==
    /\ \A w \in 1..MaxWorkers :
        /\ WF_vars(w \in DOMAIN ws /\ WorkerRun(w))
        /\ WF_vars(w \in DOMAIN ws /\ ForwarderRun(w))
    /\ WF_vars(ConsumerRecv)

LiveStream == Init /\ [][NextStream]_vars /\ FairStream

\* the senders of the consumer channel still alive
Senders ==
    (IF stream = "up" THEN {0} ELSE {})
        \cup {w \in DOMAIN ws : ws[w].fwd = "running"}

\* the consumer's recv() yields None
Exhausted == Senders = {} /\ consumer = <<>>

\* a call on the Stream returns in this step
StreamCall(op) == ret'.n # ret.n /\ ret'.op = op

\* C21: a subscribe for a board that is in the worker registry returns
\* AlreadySubscribed and changes nothing: the registry and the cached boards
\* are as before, no worker and no forwarder is started, and no get_boards
\* request is issued.
C21_AlreadySubscribedChangesNothing ==
    [][(StreamCall("subscribe") /\ ret'.board \in DOMAIN workers) =>
          /\ ret'.result = "AlreadySubscribed"
          /\ UNCHANGED <<workers, ws, http, boards, consumer, stream>>]_vars

C21_Witness ==
    /\ ret.op = "subscribe"
    /\ ret.result = "AlreadySubscribed"
    /\ ret.board \in DOMAIN workers
    /\ Len(ws) = 1
    /\ ws[1].board = ret.board

\* C22: a subscribe for an unregistered board whose lookup ran on a boards
\* list that does not hold the board returns BoardNotFound, starts no worker
\* and no forwarder and leaves the registry as it was.
C22_BoardNotFound ==
    [][(/\ StreamCall("subscribe")
        /\ ret'.board \notin DOMAIN workers
        /\ ret'.result \notin {"RchanApi", "panicked"}
        /\ ret'.board \notin boards') =>
          /\ ret'.result = "BoardNotFound"
          /\ UNCHANGED <<workers, ws>>]_vars

C22_Witness ==
    /\ ret.op = "subscribe"
    /\ ret.result = "BoardNotFound"
    /\ boards # {}
    /\ ret.board \notin boards
    /\ Len(ws) = 1

\* C23: unsubscribe(b) takes b out of the registry and signals the kill
\* handle of its worker when b is registered, and leaves the registry and
\* every worker alone when it is not; a subscribe(b) that finds b
\* unregistered, as every state after unsubscribe(b) has it, and present in
\* the boards list returns Ok with b registered to a newly started worker.
C23_UnsubscribeThenSubscribe ==
    [][/\ StreamCall("unsubscribe") =>
            LET b == ret'.board
            IN  /\ b \notin DOMAIN workers'
                /\ workers' = [x \in DOMAIN workers \ {b} |-> workers[x]]
                /\ IF b \in DOMAIN workers
                   THEN /\ ws'[workers[b]].kill = "sent"
                           \/ ws[workers[b]].pc = "ended"
                        /\ \A w \in DOMAIN ws \ {workers[b]} : ws'[w] = ws[w]
                   ELSE ws' = ws
       /\ (/\ StreamCall("subscribe")
           /\ ret'.board \notin DOMAIN workers
           /\ ret'.board \in boards') =>
            /\ ret'.result = "Ok"
            /\ ret'.board \in DOMAIN workers'
            /\ workers'[ret'.board] = Len(ws')
            /\ ws' = Append(ws, start_worker(ret'.board))]_vars

C23_Witness ==
    /\ ret.op = "subscribe"
    /\ ret.result = "Ok"
    /\ Len(ws) = 2
    /\ ws[1].board = ret.board
    /\ ws[2].board = ret.board
    /\ ws[1].kill = "sent"
    /\ workers[ret.board] = 2

\* every worker and every forwarder started by the Stream has ended
AllEnded == \A w \in DOMAIN ws : ws[w].pc = "ended" /\ ws[w].fwd = "ended"

C25_NoEventDropped ==
    [][/\ \/ InFlight' = InFlight
          \/ /\ \E t \in tasks : t.state = "sending"
                    /\ InFlight' = Append(InFlight,
                           [cycle |-> t.cycle, no |-> t.no,
                            k |-> t.new_posts[t.n_sent + 1].k])
             /\ events_tx' = events_tx
             /\ Len(new_posts_chan) < ChanCap
          \/ /\ events_tx # <<>>
             /\ events_tx' = Tail(events_tx)
             /\ new_posts_chan' = new_posts_chan
             /\ lastRecv' = Head(events_tx).cycle
       /\ Len(events_tx') <= ConsumerCap
       /\ Len(new_posts_chan') <= ChanCap]_vars

\* the consumer channel is full, the forwarder waits with the worker's channel
\* full behind it, and a fetch task waits to publish while the worker waits
\* in join_all
C25_Witness ==
    /\ Len(events_tx) = ConsumerCap
    /\ Len(new_posts_chan) = ChanCap
    /\ pc = "join"
    /\ \E t \in CurrentTasks : t.state = "sending"

\* C27: the cache task answers in the order of sending. A caller's floor is
\* the time the latest Update for its endpoint was sent before its LastCalled
\* request (None if there was none), and its latest is the payload of the
\* latest Update sent before its LastResponse request. A LastCalled sent
\* before any Update is answered None; sent after an Update it is answered
\* with a stamp, taken no earlier than that Update was sent; a LastResponse
\* sent after an Update is answered with the payload of the latest such
\* Update, whatever was sent behind it.
C27_AnsweredInSendOrder ==
    [][\A p \in Callers :
          LET e == call[p].endpoint
          IN  /\ (call[p].pc = "last_called" /\ call'[p].pc # "last_called") =>
                    IF call[p].floor = None
                    THEN /\ last_called[e] = None
                         /\ call'[p].header = None
                    ELSE /\ last_called[e] # None
                         /\ last_called[e] >= call[p].floor
                         /\ call'[p].header = ToRfc2822(last_called[e])
              /\ (/\ call[p].pc = "last_response"
                  /\ call'[p].pc # "last_response"
                  /\ call[p].latest # NoPayload) =>
                    /\ call'[p].pc = "done"
                    /\ call'[p].result = Ok(call[p].latest)]_vars

\* a caller was answered with the payload of the Update sent before its
\* request although a later Update has since replaced it in the cache
C27_Witness ==
    \E p \in Callers :
        /\ call[p].pc = "done"
        /\ call[p].status = 304
        /\ call[p].floor # None
        /\ call[p].header # None
        /\ call[p].latest # NoPayload
        /\ call[p].result = Ok(call[p].latest)
        /\ last_response[call[p].endpoint] # call[p].latest

\* C28: the loop pass that brings the counter to CLEANUP_INTERVAL sweeps the
\* maps as its request left them: every entry whose stamp is more than
\* MAX_CACHE_TIME_S seconds before the time of the sweep is gone from both
\* maps, and every younger entry is still in both with its stamp.
C28_SweepEvictsExactlyTheOld ==
    [][(counter = CLEANUP_INTERVAL - 1 /\ counter' = 0) =>
           \A e \in Endpoints :
               LET m == Head(inbox)
                   stamp == IF m.op = "Update" /\ m.endpoint = e
                            THEN utc ELSE last_called[e]
               IN  stamp # None =>
                       IF NumSeconds(utc - stamp) > MAX_CACHE_TIME_S
                       THEN /\ last_called'[e] = None
                            /\ last_response'[e] = NoPayload
                       ELSE /\ last_called'[e] = stamp
                            /\ last_response'[e] # NoPayload]_vars

\* the half of the claim that holds: a sweep removes no entry that is younger
\* than the hour
C28_SweepKeepsTheYoung ==
    [][(counter = CLEANUP_INTERVAL - 1 /\ counter' = 0) =>
           \A e \in Endpoints :
               (/\ last_called[e] # None
                /\ NumSeconds(utc - last_called[e]) <= MAX_CACHE_TIME_S) =>
                   /\ last_called'[e] # None
                   /\ last_response'[e] # NoPayload]_vars

\* ------------------------- the get_thread requests of a cycle at the limiter
\* a fetch task spawned by update_board reaches RateLimitedClient::execute
\* through get_thread -> get_with_retry -> get and sends its request on the
\* limiter's channel; the tasks run concurrently, so any of them can be next
FetchExecute(t) ==
    /\ t \in CurrentTasks
    /\ t.state = "fetching"
    /\ \A i \in DOMAIN fetch_queue :
           <<fetch_queue[i].cycle, fetch_queue[i].no>> # <<t.cycle, t.no>>
    /\ \A i \in DOMAIN fetch_released :
           <<fetch_released[i].cycle, fetch_released[i].no>>
               # <<t.cycle, t.no>>
    /\ Len(fetch_queue) < ChanCap
    /\ fetch_queue' = Append(fetch_queue,
           [cycle |-> t.cycle, no |-> t.no,
            last_modified |-> LastModifiedIn(threads, t.no)])
    /\ UNCHANGED <<fetch_released, chanVars, workerVars, published, upVars,
                   rlVars, apiVars, streamVars>>

\* the limiter task takes the next request from its channel with rx.recv(),
\* passes rate_limit() and hands the request to upstream
FetchRelease ==
    /\ fetch_queue # <<>>
    /\ fetch_released' = Append(fetch_released, Head(fetch_queue))
    /\ fetch_queue' = Tail(fetch_queue)
    /\ UNCHANGED <<chanVars, workerVars, published, upVars, rlVars, apiVars,
                   streamVars>>

NextFetch ==
    \/ \E pgs \in Pages : InitOk(pgs)
    \/ LoopContinue
    \/ \E pgs \in Pages : UpdateBoardOk(pgs)
    \/ \E t \in tasks : FetchExecute(t)
    \/ FetchRelease

SpecFetch == Init /\ [][NextFetch]_vars

\* C30: the get_thread requests of one cycle leave the limiter in ascending
\* order of their threads' summary last_modified, whichever task reaches the
\* limiter first.
C30_ReleasedInAgeOrder ==
    \A i, j \in DOMAIN fetch_released :
        (i < j /\ fetch_released[i].cycle = fetch_released[j].cycle) =>
            fetch_released[i].last_modified
                <= fetch_released[j].last_modified

\* what the code does keep: the limiter releases in the order of arrival
C30_ReleasedInArrivalOrder ==
    [][fetch_queue # <<>> /\ fetch_released' # fetch_released =>
           fetch_released' = Append(fetch_released, Head(fetch_queue))]_vars

\* C38: every watermark of the worker has prev_last_modified at or below
\* last_modified, in every state: after init, after each diff, after each
\* rollback and eviction.
C38_PrevNotAboveLast ==
    \A n \in DOMAIN threads :
        threads[n].prev_last_modified <= threads[n].last_modified

\* a cycle was joined with a rollback, and a watermark has advanced twice
C38_Witness ==
    /\ cycle = MaxCycles
    /\ pc \in {"sleep", "loop"}
    /\ DOMAIN failed # {}
    /\ \E n \in DOMAIN threads :
           /\ 0 < threads[n].prev_last_modified
           /\ threads[n].prev_last_modified < threads[n].last_modified
    /\ \E n \in DOMAIN threads \cap DOMAIN failed :
           threads[n].prev_last_modified = threads[n].last_modified

\* C33: a post of a thread is published at most once: whenever a fetch task
\* sends an event on the worker's channel, no event for the same post of the
\* same thread was sent before, the thread's fetch not having failed (no
\* rollback) in the cycle joined before.
C33_PublishedAtMostOnce ==
    [][Len(new_posts_chan') > Len(new_posts_chan) =>
           LET e == new_posts_chan'[Len(new_posts_chan')]
           IN  e.no \notin DOMAIN failed =>
                   [no |-> e.no, k |-> e.k] \notin published]_vars

\* C31: the cache gets entries from decoded 200 responses only. An Update
\* message is sent only in the step in which a caller's request is answered
\* 200 and decoded, carrying the decoded payload; the maps change only when
\* the cache task handles an Update, and only at its endpoint; so an endpoint
\* with an entry has had a decoded 200. A 304, a 404, any other status, a
\* body that does not decode and a transport failure leave every entry, stamp
\* and payload, as it was.
C31_EntriesOnlyFromDecoded200 ==
    [][/\ \A e \in Endpoints :
              (\/ last_called'[e] # last_called[e]
               \/ last_response'[e] # last_response[e]) =>
                  /\ inbox # <<>>
                  /\ Head(inbox).op = "Update"
                  /\ Head(inbox).endpoint = e
                  /\ last_response'[e] = Head(inbox).payload
                  /\ last_called'[e] = utc
       /\ (Len(inbox') > Len(inbox)
              /\ inbox'[Len(inbox')].op = "Update") =>
              \E p \in Callers :
                  /\ call[p].pc = "execute"
                  /\ call'[p].pc = "done"
                  /\ call'[p].status = 200
                  /\ inbox'[Len(inbox')].endpoint = call[p].endpoint
                  /\ call'[p].result = Ok(inbox'[Len(inbox')].payload)
       /\ \A e \in Endpoints :
              (last_called'[e] # None \/ last_response'[e] # NoPayload) =>
                  done200'[e] # None]_vars

\* an endpoint has an entry from a 200, and a later request for it that
\* ended on a 404 has left the entry in place
C31_Witness ==
    \E p \in Callers :
        /\ call[p].pc = "done"
        /\ call[p].status = 404
        /\ call[p].floor # None
        /\ inbox = <<>>
        /\ last_called[call[p].endpoint] # None
        /\ last_response[call[p].endpoint] = last200[call[p].endpoint]
        /\ last_response[call[p].endpoint] # NoPayload
        /\ \E e \in Endpoints : last_called[e] = None

\* C37: a get that returns Ok returns a payload of the variant of its
\* endpoint, decoded from a 200 or replayed on a 304; every payload the cache
\* holds has the variant of its key; NotModified is never returned.
C37_VariantMatchesEndpoint ==
    /\ \A p \in Callers :
           (call[p].pc = "done" /\ call[p].result.tag = "Ok") =>
               call[p].result.value.variant = call[p].endpoint
    /\ \A e \in Endpoints :
           last_response[e] # NoPayload => last_response[e].variant = e

C37_Witness ==
    \E p, q \in Callers :
        /\ call[p].pc = "done" /\ call[p].status = 304
        /\ call[p].result.tag = "Ok"
        /\ call[q].pc = "done" /\ call[q].status = 200
        /\ call[q].result.tag = "Ok"
        /\ call[p].endpoint # call[q].endpoint
        /\ call[p].result.value.variant = "Catalog"

\* C39: the two maps of the cache task have the same keys in every state: an
\* endpoint has a stamp exactly when it has a payload.
C39_SameKeySet ==
    \A e \in Endpoints :
        last_called[e] = None <=> last_response[e] = NoPayload

\* after a sweep, more than an hour on: one endpoint in both maps, the other
\* in neither
C39_Witness ==
    /\ counter = 0
    /\ utc >= Hour
    /\ \E e \in Endpoints :
           last_called[e] # None /\ last_response[e] # NoPayload
    /\ \E e \in Endpoints :
           last_called[e] = None /\ last_response[e] = NoPayload

\* the worker task w has not returned
Running(w) == ws[w].pc # "ended"

\* C34: at no time do two running workers of one Stream poll the same board.
C34_OneWorkerPerBoard ==
    \A v, w \in DOMAIN ws :
        (v # w /\ Running(v) /\ Running(w)) => ws[v].board # ws[w].board

\* C35: a board is in the registry only while its worker task is running.
C35_RegistryOnlyRunning ==
    \A b \in DOMAIN workers : Running(workers[b])

\* the consequence C35 names: a subscribe for a board whose worker has ended
\* is not rejected with AlreadySubscribed
C35_ResubscribeAfterFailure ==
    [][(StreamCall("subscribe") /\ ret'.result = "AlreadySubscribed") =>
           Running(workers[ret'.board])]_vars

\* what the registry does keep: it never holds two boards for one worker, and
\* a registered worker's kill handle has not been used
C34_RegisteredHandlesUnused ==
    \A b \in DOMAIN workers : ws[workers[b]].kill = "open"

\* ------------------- src/src/api/rate_limit.rs: the earlier RateLimiter
\* RateLimiter::rate_limit, a function that is not async: it drops the
\* expired timestamps; with N left it computes sleep_duration and builds the
\* future tokio::time::sleep(..) without awaiting it, so nothing waits; it
\* reads now() again, d later, and pushes now + W; then it returns
RateLimitSync(d) ==
    /\ Len(released) < MaxRequests
    /\ now + d <= MaxNow
    /\ LET live == Unexpired(timestamps, now)
           later == IF Len(live) >= rate_limit_per_interval
                    THEN now + d ELSE now
       IN  /\ timestamps' = Append(live, later + interval_duration_ms)
           /\ now' = later
           /\ released' = Append(released, later)
    /\ UNCHANGED <<rate_limit_per_interval, interval_duration_ms, rl_pc,
                   wake_at, queue, submitted, via, returned, workerVars,
                   published, upVars, apiVars, streamVars, fetchVars>>

NextSyncRL ==
    \/ \E d \in 0..MaxLate : RateLimitSync(d)
    \/ Tick

SpecSyncRL == InitRL /\ [][NextSyncRL]_vars

\* C32: of n consecutive calls of the earlier rate_limit, the n-th does not
\* return before floor((n - 1) / N) * W has passed since the first returned.
C32_SyncLimiterDelays ==
    \A n \in DOMAIN released :
        released[n] - released[1]
            >= ((n - 1) \div rate_limit_per_interval) * interval_duration_ms

\* the sleep rate_limit() computes in a state where it would take its if
\* branch: firstExpiry - now
SleepDuration == Head(Unexpired(timestamps, now)) - now

\* C40: the stored expiry list holds at most N + 1 elements and is in
\* non-decreasing order, and whenever the limiter takes a request with N
\* unexpired expiries the sleep it computes, firstExpiry - now, is above 0
\* and at most W.
C40_ExpiryListBounded ==
    /\ Len(timestamps) <= rate_limit_per_interval + 1
    /\ \A i, j \in DOMAIN timestamps :
           i <= j => timestamps[i] <= timestamps[j]
    /\ (rl_pc = "recv"
           /\ Len(Unexpired(timestamps, now)) >= rate_limit_per_interval) =>
           /\ SleepDuration > 0
           /\ SleepDuration <= interval_duration_ms


\* a request is waiting while the stored list holds N + 1 expiries for
\* N = 2, N of them unexpired, and the sleep to compute is shorter than W
C40_Witness ==
    /\ rate_limit_per_interval = 2
    /\ rl_pc = "recv"
    /\ queue > 0
    /\ Len(timestamps) = rate_limit_per_interval + 1
    /\ Len(Unexpired(timestamps, now)) >= rate_limit_per_interval
    /\ SleepDuration < interval_duration_ms
    /\ Len(released) >= 3


\* ------------------------- rate_limit.rs: the limiter task and its channel
\* the channel's next message, picked from the wrong end
RxRecv_Newest(ch) == ch[Len(ch)]

\* rx.recv().await: the oldest message of the mpsc channel
RxRecv(ch) == Head(ch)

\* RateLimitedClient::execute through clone c: the request, numbered in the
\* order of sending, enters the limiter's channel; the caller then waits on
\* its reply channel
ExecuteSend(c) ==
    /\ submitted < MaxRequests
    /\ Len(rx) < ChanCap
    /\ rx' = Append(rx, submitted + 1)
    /\ queue' = queue + 1
    /\ submitted' = submitted + 1
    /\ via' = via \cup {c}
    /\ UNCHANGED <<rate_limit_per_interval, interval_duration_ms, timestamps,
                   now, rl_pc, wake_at, released, returned, req, handed,
                   fetch_queue, fetch_released, workerVars, published, upVars,
                   apiVars, streamVars>>

\* the loop of the limiter task: recv, rate_limit() in its else branch,
\* handle_get / handle_execute spawns the transport call
RecvPass ==
    /\ rl_pc = "recv"
    /\ rx # <<>>
    /\ LET live == Unexpired(timestamps, now)
       IN  /\ Len(live) < rate_limit_per_interval
           /\ timestamps' = PushExpiry(live, now, 0)
    /\ handed' = Append(handed, RxRecv(rx))
    /\ rx' = Tail(rx)
    /\ queue' = queue - 1
    /\ Release(now)
    /\ UNCHANGED <<rate_limit_per_interval, interval_duration_ms, now, rl_pc,
                   wake_at, submitted, via, req, fetch_queue, fetch_released,
                   workerVars, published, upVars, apiVars, streamVars>>

\* recv, then rate_limit() in its if branch: the task keeps the request
\* while it sleeps
RecvSleep ==
    /\ rl_pc = "recv"
    /\ rx # <<>>
    /\ LET live == Unexpired(timestamps, now)
       IN  /\ Len(live) >= rate_limit_per_interval
           /\ LET sleep_duration == Head(live) - now
              IN  /\ timestamps' = PushExpiry(live, now, sleep_duration)
                  /\ wake_at' = now + sleep_duration
    /\ req' = RxRecv(rx)
    /\ rx' = Tail(rx)
    /\ queue' = queue - 1
    /\ rl_pc' = "sleep"
    /\ UNCHANGED <<rate_limit_per_interval, interval_duration_ms, now,
                   submitted, released, via, returned, handed, fetch_queue,
                   fetch_released, workerVars, published, upVars, apiVars,
                   streamVars>>

\* the sleep returns and the kept request is handed to the spawned
\* transport call
SleepHandOver ==
    /\ rl_pc = "sleep"
    /\ now >= wake_at
    /\ rl_pc' = "recv"
    /\ handed' = Append(handed, req)
    /\ req' = None
    /\ Release(now)
    /\ UNCHANGED <<rate_limit_per_interval, interval_duration_ms, timestamps,
                   now, wake_at, queue, submitted, via, rx, fetch_queue,
                   fetch_released, workerVars, published, upVars, apiVars,
                   streamVars>>

\* a millisecond passes; the clock stops at MaxNow unless a sleep is still
\* to reach its deadline
Elapse ==
    /\ now < MaxNow \/ (rl_pc = "sleep" /\ now < wake_at)
    /\ rl_pc = "sleep" => now < wake_at + MaxLate
    /\ now' = now + 1
    /\ UNCHANGED <<rate_limit_per_interval, interval_duration_ms, timestamps,
                   rl_pc, wake_at, queue, submitted, released, via, returned,
                   workerVars, published, upVars, apiVars, streamVars,
                   fetchVars>>

NextChan ==
    \/ \E c \in Clones : ExecuteSend(c)
    \/ RecvPass
    \/ RecvSleep
    \/ SleepHandOver
    \/ Elapse

SpecChan == InitRL /\ [][NextChan]_vars

\* the runtime keeps polling the limiter task, its timer fires, time passes
FairChan ==
    /\ WF_vars(RecvPass)
    /\ WF_vars(RecvSleep)
    /\ WF_vars(SleepHandOver)
    /\ WF_vars(Elapse)

LiveChan == SpecChan /\ FairChan

\* C36: every request sent to the rate-limited client is eventually handed
\* to the transport, and the requests are handed over in the order in which
\* the limiter task received them (the order of their numbers).
C36_ReleasedInOrderEventually ==
    /\ [](\A i \in DOMAIN handed : handed[i] = i)
    /\ \A i \in 1..MaxRequests :
           (submitted >= i) ~> (\E j \in DOMAIN handed : handed[j] = i)

\* the first request was released, the second is kept by the sleeping
\* limiter and two more wait in the channel
C36_Witness ==
    /\ handed = <<1>>
    /\ rl_pc = "sleep"
    /\ req = 2
    /\ rx = <<3, 4>>
    /\ now < wake_at

====
